---- MODULE Spec2Model ----
(***************************************************************************)
(* Model of Data::NotifySettings (data_notify_settings.cpp): the per-peer  *)
(* notification settings tracker, its NotifySettingsValue and the sound    *)
(* codec.                                                                  *)
(***************************************************************************)
EXTENDS Integers, Sequences, FiniteSets, TLC

(* ------------------------------ bounds -------------------------------- *)

\* base::unixtime::now() ranges over MinNow..MaxNow.
MinNow == 1
MaxNow == 2
\* muteForSeconds of a local edit ranges over -1..MaxMuteSecs.
MaxMuteSecs == 1
\* a remote record's mute_until, when present, is RemoteMuteUntil.
RemoteMuteUntil == 4
\* the ringtone ids the codec is applied to are 0..MaxRingtoneId and 42.
MaxRingtoneId == 2

(* --------------------------- std::optional ---------------------------- *)

\* std::nullopt / an empty optional
nullopt == <<>>
\* std::make_optional(x)
make_optional(x) == <<x>>
\* optional.has_value()
has_value(o) == o # <<>>
\* *optional
deref(o) == o[1]

(* ----------------------------- wire types ----------------------------- *)

\* MTP_bool(v): boolTrue or boolFalse
MTP_bool(v) == IF v THEN "boolTrue" ELSE "boolFalse"
\* MTPBool(): a default-constructed Bool, neither boolTrue nor boolFalse
MTPBool == "bool"
\* mtpIsTrue(b)
mtpIsTrue(b) == b = "boolTrue"
\* MTPint(): a default-constructed int
MTPint == 0

MTP_notificationSoundDefault ==
    [type |-> "notificationSoundDefault", title |-> "", data |-> "", id |-> 0]
MTP_notificationSoundNone ==
    [type |-> "notificationSoundNone", title |-> "", data |-> "", id |-> 0]
MTP_notificationSoundLocal(title, data) ==
    [type |-> "notificationSoundLocal", title |-> title, data |-> data, id |-> 0]
MTP_notificationSoundRingtone(id) ==
    [type |-> "notificationSoundRingtone", title |-> "", data |-> "", id |-> id]
\* MTPNotificationSound(): the sound a record carries when none is given
MTPNotificationSound == MTP_notificationSoundDefault

MTP_peerNotifySettings(flags, show_previews, silent, mute_until, ios_sound, android_sound, other_sound) ==
    [type |-> "peerNotifySettings",
     flags |-> flags, show_previews |-> show_previews, silent |-> silent,
     mute_until |-> mute_until, ios_sound |-> ios_sound,
     android_sound |-> android_sound, other_sound |-> other_sound]

\* MTPPeerNotifySettings(): a default-constructed record, whose type() is not
\* mtpc_peerNotifySettings
MTPPeerNotifySettings ==
    [type |-> "0",
     flags |-> {}, show_previews |-> MTPBool, silent |-> MTPBool,
     mute_until |-> MTPint, ios_sound |-> MTPNotificationSound,
     android_sound |-> MTPNotificationSound, other_sound |-> MTPNotificationSound]

\* data.vmute_until() etc.: the field when its flag is set, else null
vmute_until(data) ==
    IF "f_mute_until" \in data.flags THEN make_optional(data.mute_until) ELSE nullopt
vother_sound(data) ==
    IF "f_other_sound" \in data.flags THEN make_optional(data.other_sound) ELSE nullopt
vshow_previews(data) ==
    IF "f_show_previews" \in data.flags THEN make_optional(data.show_previews) ELSE nullopt
vsilent(data) ==
    IF "f_silent" \in data.flags THEN make_optional(data.silent) ELSE nullopt

MTP_inputPeerNotifySettings(flags, show_previews, silent, mute_until, sound) ==
    [flags |-> flags, show_previews |-> show_previews, silent |-> silent,
     mute_until |-> mute_until, sound |-> sound]

DefaultSettings ==
    MTP_inputPeerNotifySettings({}, MTPBool, MTPBool, MTPint, MTPNotificationSound)

(* ----------------------------- sound codec ---------------------------- *)

\* NotifySound{ .none, .title, .data, .id }, value-initialised where not given
NotifySound(none, title, data, id) ==
    [none |-> none, title |-> title, data |-> data, id |-> id]

\* ParseSound keeping only the title of a local sound
ParseSound_LocalTitleOnly(sound) ==
    CASE sound.type = "notificationSoundDefault" -> NotifySound(FALSE, "", "", 0)
      [] sound.type = "notificationSoundNone" -> NotifySound(TRUE, "", "", 0)
      [] sound.type = "notificationSoundLocal" ->
            NotifySound(FALSE, sound.title, "", 0)
      [] sound.type = "notificationSoundRingtone" ->
            NotifySound(FALSE, "", "", sound.id)

\* ParseSound setting the none flag of a ringtone as well
ParseSound_RingtoneAlsoNone(sound) ==
    CASE sound.type = "notificationSoundDefault" -> NotifySound(FALSE, "", "", 0)
      [] sound.type = "notificationSoundNone" -> NotifySound(TRUE, "", "", 0)
      [] sound.type = "notificationSoundLocal" ->
            NotifySound(FALSE, sound.title, sound.data, 0)
      [] sound.type = "notificationSoundRingtone" ->
            NotifySound(TRUE, "", "", sound.id)

ParseSound(sound) ==
    CASE sound.type = "notificationSoundDefault" -> NotifySound(FALSE, "", "", 0)
      [] sound.type = "notificationSoundNone" -> NotifySound(TRUE, "", "", 0)
      [] sound.type = "notificationSoundLocal" ->
            NotifySound(FALSE, sound.title, sound.data, 0)
      [] sound.type = "notificationSoundRingtone" ->
            NotifySound(FALSE, "", "", sound.id)

\* SerializeSound testing the ringtone id before the none flag
SerializeSound_RingtoneFirst(sound) ==
    IF ~has_value(sound) THEN MTPNotificationSound
    ELSE IF deref(sound).id # 0 THEN MTP_notificationSoundRingtone(deref(sound).id)
    ELSE IF deref(sound).none THEN MTP_notificationSoundNone
    ELSE IF deref(sound).title # ""
        THEN MTP_notificationSoundLocal(deref(sound).title, deref(sound).data)
    ELSE MTP_notificationSoundDefault

SerializeSound(sound) ==
    IF ~has_value(sound) THEN MTPNotificationSound
    ELSE IF deref(sound).none THEN MTP_notificationSoundNone
    ELSE IF deref(sound).id # 0 THEN MTP_notificationSoundRingtone(deref(sound).id)
    ELSE IF deref(sound).title # ""
        THEN MTP_notificationSoundLocal(deref(sound).title, deref(sound).data)
    ELSE MTP_notificationSoundDefault

(* ------------------------- NotifySettingsValue ------------------------ *)

\* the four members before the constructor body runs
NoFields ==
    [_mute |-> nullopt, _sound |-> nullopt, _silent |-> nullopt,
     _showPreviews |-> nullopt]

\* the four-field merge comparing only three members: a change of the silent
\* flag alone is dropped
ValueChangeFields_SkipSilent(v, mute, sound, showPreviews, silentPosts) ==
    IF /\ v._mute = mute
       /\ v._sound = sound
       /\ v._showPreviews = showPreviews
    THEN [ret |-> FALSE, value |-> v]
    ELSE [ret |-> TRUE,
          value |-> [_mute |-> mute, _sound |-> sound, _silent |-> silentPosts,
                     _showPreviews |-> showPreviews]]

\* the four-field merge without its comparison: always writes, always true
ValueChangeFields_NoCompare(v, mute, sound, showPreviews, silentPosts) ==
    [ret |-> TRUE,
     value |-> [_mute |-> mute, _sound |-> sound, _silent |-> silentPosts,
                _showPreviews |-> showPreviews]]

\* bool change(mute, sound, showPreviews, silentPosts): the four-field merge;
\* yields the returned bool and the members afterwards
ValueChangeFields(v, mute, sound, showPreviews, silentPosts) ==
    IF /\ v._mute = mute
       /\ v._sound = sound
       /\ v._showPreviews = showPreviews
       /\ v._silent = silentPosts
    THEN [ret |-> FALSE, value |-> v]
    ELSE [ret |-> TRUE,
          value |-> [_mute |-> mute, _sound |-> sound, _silent |-> silentPosts,
                     _showPreviews |-> showPreviews]]

\* change(data) keeping the stored field where the record has none
ValueChangeData_KeepAbsent(v, data) ==
    LET mute == vmute_until(data)
        sound == vother_sound(data)
        showPreviews == vshow_previews(data)
        silent == vsilent(data)
    IN ValueChangeFields(v,
         IF has_value(mute) THEN make_optional(deref(mute)) ELSE v._mute,
         IF has_value(sound) THEN make_optional(ParseSound(deref(sound))) ELSE v._sound,
         IF has_value(showPreviews)
            THEN make_optional(mtpIsTrue(deref(showPreviews))) ELSE v._showPreviews,
         IF has_value(silent) THEN make_optional(mtpIsTrue(deref(silent))) ELSE v._silent)

\* bool change(const MTPDpeerNotifySettings &data)
ValueChangeData(v, data) ==
    LET mute == vmute_until(data)
        sound == vother_sound(data)
        showPreviews == vshow_previews(data)
        silent == vsilent(data)
    IN ValueChangeFields(v,
         IF has_value(mute) THEN make_optional(deref(mute)) ELSE nullopt,
         IF has_value(sound) THEN make_optional(ParseSound(deref(sound))) ELSE nullopt,
         IF has_value(showPreviews)
            THEN make_optional(mtpIsTrue(deref(showPreviews))) ELSE nullopt,
         IF has_value(silent) THEN make_optional(mtpIsTrue(deref(silent))) ELSE nullopt)

\* NotifySettingsValue(const MTPDpeerNotifySettings &data)
NotifySettingsValue(data) == ValueChangeData(NoFields, data).value

\* the local merge passing no sound on
ValueChangeLocal_DropsSound(v, muteForSeconds, silentPosts, now) ==
    LET newMute == IF has_value(muteForSeconds)
                   THEN make_optional(IF deref(muteForSeconds) > 0
                                      THEN now + deref(muteForSeconds)
                                      ELSE 0)
                   ELSE v._mute
        newSilentPosts == IF has_value(silentPosts)
                          THEN make_optional(deref(silentPosts))
                          ELSE v._silent
    IN ValueChangeFields(v, newMute, nullopt, v._showPreviews, newSilentPosts)

\* the local merge extending a mute instead of overriding it
ValueChangeLocal_ExtendOnly(v, muteForSeconds, silentPosts, now) ==
    LET target == IF deref(muteForSeconds) > 0 THEN now + deref(muteForSeconds) ELSE 0
        newMute == IF has_value(muteForSeconds)
                   THEN make_optional(IF has_value(v._mute) /\ deref(v._mute) > target
                                      THEN deref(v._mute)
                                      ELSE target)
                   ELSE v._mute
        newSilentPosts == IF has_value(silentPosts)
                          THEN make_optional(deref(silentPosts))
                          ELSE v._silent
    IN ValueChangeFields(v, newMute, v._sound, v._showPreviews, newSilentPosts)

\* bool change(std::optional<int> muteForSeconds, std::optional<bool> silentPosts)
ValueChangeLocal(v, muteForSeconds, silentPosts, now) ==
    LET newMute == IF has_value(muteForSeconds)
                   THEN make_optional(IF deref(muteForSeconds) > 0
                                      THEN now + deref(muteForSeconds)
                                      ELSE 0)
                   ELSE v._mute
        newSilentPosts == IF has_value(silentPosts)
                          THEN make_optional(deref(silentPosts))
                          ELSE v._silent
    IN ValueChangeFields(v, newMute, v._sound, v._showPreviews, newSilentPosts)

\* serialize() flagging a boolean field by its value instead of its presence
ValueSerialize_FlagByValue(v) ==
    LET flag(optional, f) == IF has_value(optional) THEN {f} ELSE {}
        flagTrue(optional, f) ==
            IF has_value(optional) /\ deref(optional) THEN {f} ELSE {}
    IN MTP_inputPeerNotifySettings(
         flag(v._mute, "f_mute_until") \cup flag(v._sound, "f_sound")
            \cup flagTrue(v._silent, "f_silent")
            \cup flagTrue(v._showPreviews, "f_show_previews"),
         MTP_bool(IF has_value(v._showPreviews) THEN deref(v._showPreviews) ELSE TRUE),
         MTP_bool(IF has_value(v._silent) THEN deref(v._silent) ELSE FALSE),
         IF has_value(v._mute) THEN deref(v._mute) ELSE 0,
         SerializeSound(v._sound))

\* MTPinputPeerNotifySettings NotifySettingsValue::serialize() const
ValueSerialize(v) ==
    LET flag(optional, f) == IF has_value(optional) THEN {f} ELSE {}
    IN MTP_inputPeerNotifySettings(
         flag(v._mute, "f_mute_until") \cup flag(v._sound, "f_sound")
            \cup flag(v._silent, "f_silent")
            \cup flag(v._showPreviews, "f_show_previews"),
         MTP_bool(IF has_value(v._showPreviews) THEN deref(v._showPreviews) ELSE TRUE),
         MTP_bool(IF has_value(v._silent) THEN deref(v._silent) ELSE FALSE),
         IF has_value(v._mute) THEN deref(v._mute) ELSE 0,
         SerializeSound(v._sound))

(* ---------------------------- NotifySettings -------------------------- *)

\* _value == nullptr
nullptr == <<>>

\* change(settings) constructing a Value without setting the known flag
ChangeRemote_ConstructUnknown(k, val, data) ==
    LET empty == data.flags = {}
    IN IF empty
       THEN IF ~k \/ val # nullptr
            THEN [ret |-> TRUE, known |-> TRUE, value |-> nullptr]
            ELSE [ret |-> FALSE, known |-> k, value |-> val]
       ELSE IF val # nullptr
            THEN LET r == ValueChangeData(deref(val), data)
                 IN [ret |-> r.ret, known |-> k, value |-> <<r.value>>]
            ELSE [ret |-> TRUE, known |-> k,
                  value |-> <<NotifySettingsValue(data)>>]

\* change(settings) whose empty branch forgets the Value but also the known flag
ChangeRemote_EmptyUnknown(k, val, data) ==
    LET empty == data.flags = {}
    IN IF empty
       THEN IF ~k \/ val # nullptr
            THEN [ret |-> TRUE, known |-> FALSE, value |-> nullptr]
            ELSE [ret |-> FALSE, known |-> k, value |-> val]
       ELSE IF val # nullptr
            THEN LET r == ValueChangeData(deref(val), data)
                 IN [ret |-> r.ret, known |-> k, value |-> <<r.value>>]
            ELSE [ret |-> TRUE, known |-> TRUE,
                  value |-> <<NotifySettingsValue(data)>>]

\* change(settings) whose empty branch does not test the state it finds
ChangeRemote_EmptyAlways(k, val, data) ==
    LET empty == data.flags = {}
    IN IF empty
       THEN [ret |-> TRUE, known |-> TRUE, value |-> nullptr]
       ELSE IF val # nullptr
            THEN LET r == ValueChangeData(deref(val), data)
                 IN [ret |-> r.ret, known |-> k, value |-> <<r.value>>]
            ELSE [ret |-> TRUE, known |-> TRUE,
                  value |-> <<NotifySettingsValue(data)>>]

\* change(settings) whose empty branch keeps the Value
ChangeRemote_EmptyKeepsValue(k, val, data) ==
    LET empty == data.flags = {}
    IN IF empty
       THEN IF ~k \/ val # nullptr
            THEN [ret |-> TRUE, known |-> TRUE, value |-> val]
            ELSE [ret |-> FALSE, known |-> k, value |-> val]
       ELSE IF val # nullptr
            THEN LET r == ValueChangeData(deref(val), data)
                 IN [ret |-> r.ret, known |-> k, value |-> <<r.value>>]
            ELSE [ret |-> TRUE, known |-> TRUE,
                  value |-> <<NotifySettingsValue(data)>>]

\* bool NotifySettings::change(const MTPPeerNotifySettings &settings):
\* the returned bool and the members afterwards
ChangeRemote(k, val, data) ==
    LET empty == data.flags = {}
    IN IF empty
       THEN IF ~k \/ val # nullptr
            THEN [ret |-> TRUE, known |-> TRUE, value |-> nullptr]
            ELSE [ret |-> FALSE, known |-> k, value |-> val]
       ELSE IF val # nullptr
            THEN LET r == ValueChangeData(deref(val), data)
                 IN [ret |-> r.ret, known |-> k, value |-> <<r.value>>]
            ELSE [ret |-> TRUE, known |-> TRUE,
                  value |-> <<NotifySettingsValue(data)>>]

\* change(muteForSeconds, silentPosts) whose early return reports a change
ChangeLocal_EarlyReturnsTrue(k, val, muteForSeconds, silentPosts, now) ==
    IF ~has_value(muteForSeconds) /\ ~has_value(silentPosts)
    THEN [ret |-> TRUE, known |-> k, value |-> val]
    ELSE IF val # nullptr
    THEN LET r == ValueChangeLocal(deref(val), muteForSeconds, silentPosts, now)
         IN [ret |-> r.ret, known |-> k, value |-> <<r.value>>]
    ELSE LET flags == (IF has_value(muteForSeconds) THEN {"f_mute_until"} ELSE {})
                      \cup (IF has_value(silentPosts) THEN {"f_silent"} ELSE {})
             muteUntil == IF has_value(muteForSeconds)
                          THEN now + deref(muteForSeconds)
                          ELSE 0
         IN ChangeRemote(k, val, MTP_peerNotifySettings(
                flags,
                MTPBool,
                IF has_value(silentPosts) THEN MTP_bool(deref(silentPosts)) ELSE MTPBool,
                muteUntil,
                MTPNotificationSound,
                MTPNotificationSound,
                MTPNotificationSound))

\* change(muteForSeconds, silentPosts) without its early return
ChangeLocal_NoEarlyReturn(k, val, muteForSeconds, silentPosts, now) ==
    IF val # nullptr
    THEN LET r == ValueChangeLocal(deref(val), muteForSeconds, silentPosts, now)
         IN [ret |-> r.ret, known |-> k, value |-> <<r.value>>]
    ELSE LET flags == (IF has_value(muteForSeconds) THEN {"f_mute_until"} ELSE {})
                      \cup (IF has_value(silentPosts) THEN {"f_silent"} ELSE {})
             muteUntil == IF has_value(muteForSeconds)
                          THEN now + deref(muteForSeconds)
                          ELSE 0
         IN ChangeRemote(k, val, MTP_peerNotifySettings(
                flags,
                MTPBool,
                IF has_value(silentPosts) THEN MTP_bool(deref(silentPosts)) ELSE MTPBool,
                muteUntil,
                MTPNotificationSound,
                MTPNotificationSound,
                MTPNotificationSound))

\* bool NotifySettings::change(muteForSeconds, silentPosts)
ChangeLocal(k, val, muteForSeconds, silentPosts, now) ==
    IF ~has_value(muteForSeconds) /\ ~has_value(silentPosts)
    THEN [ret |-> FALSE, known |-> k, value |-> val]
    ELSE IF val # nullptr
    THEN LET r == ValueChangeLocal(deref(val), muteForSeconds, silentPosts, now)
         IN [ret |-> r.ret, known |-> k, value |-> <<r.value>>]
    ELSE LET flags == (IF has_value(muteForSeconds) THEN {"f_mute_until"} ELSE {})
                      \cup (IF has_value(silentPosts) THEN {"f_silent"} ELSE {})
             muteUntil == IF has_value(muteForSeconds)
                          THEN now + deref(muteForSeconds)
                          ELSE 0
         IN ChangeRemote(k, val, MTP_peerNotifySettings(
                flags,
                MTPBool,
                IF has_value(silentPosts) THEN MTP_bool(deref(silentPosts)) ELSE MTPBool,
                muteUntil,
                MTPNotificationSound,
                MTPNotificationSound,
                MTPNotificationSound))

\* std::optional<TimeId> NotifySettings::muteUntil() const
muteUntil(val) == IF val # nullptr THEN deref(val)._mute ELSE nullopt
\* bool NotifySettings::settingsUnknown() const
settingsUnknown(k) == ~k
\* std::optional<bool> NotifySettings::silentPosts() const
silentPosts(val) == IF val # nullptr THEN deref(val)._silent ELSE nullopt
\* MTPinputPeerNotifySettings NotifySettings::serialize() const
serialize(val) == IF val # nullptr THEN ValueSerialize(deref(val)) ELSE DefaultSettings

(* ------------------------------- inputs ------------------------------- *)

\* the wire sounds a remote push carries here: every variant, a local sound
\* with and without a title and with and without data, a zero and a non-zero
\* ringtone id
WireSounds ==
    {MTP_notificationSoundDefault, MTP_notificationSoundNone,
     MTP_notificationSoundLocal("", "d"), MTP_notificationSoundLocal("t", "d"),
     MTP_notificationSoundLocal("t", ""),
     MTP_notificationSoundRingtone(0), MTP_notificationSoundRingtone(42)}

OptBool == {nullopt, <<TRUE>>, <<FALSE>>}

\* the records a remote push can carry: a field whose flag is clear holds
\* the default-constructed value
RemoteRecords ==
    { MTP_peerNotifySettings(
        (IF has_value(m) THEN {"f_mute_until"} ELSE {})
          \cup (IF has_value(s) THEN {"f_other_sound"} ELSE {})
          \cup (IF has_value(p) THEN {"f_show_previews"} ELSE {})
          \cup (IF has_value(q) THEN {"f_silent"} ELSE {})
          \cup x,
        IF has_value(p) THEN MTP_bool(deref(p)) ELSE MTPBool,
        IF has_value(q) THEN MTP_bool(deref(q)) ELSE MTPBool,
        IF has_value(m) THEN deref(m) ELSE MTPint,
        MTPNotificationSound,
        MTPNotificationSound,
        IF has_value(s) THEN deref(s) ELSE MTPNotificationSound)
      : m \in {nullopt, <<RemoteMuteUntil>>},
        s \in {nullopt} \cup {<<w>> : w \in WireSounds},
        p \in OptBool,
        q \in {nullopt, <<TRUE>>},
        x \in {{}, {"f_ios_sound", "f_android_sound"}} }

MuteForSeconds == {nullopt} \cup {<<n>> : n \in -1..MaxMuteSecs}

(* ------------------------------- state -------------------------------- *)

VARIABLES
    _known,   \* NotifySettings::_known
    _value,   \* NotifySettings::_value: nullptr or <<the Value's members>>
    now,      \* what base::unixtime::now() returns
    call,     \* the last call made on the tracker, with its arguments
    ret,      \* what that call returned
    before,   \* what the tracker was when that call was made (see Before)
    again,    \* whether that call repeated the call before it, at the same time
    aborted,  \* whether a failed Expects() has terminated the program
    applied   \* a function of the file applied on its own: input and result

vars == <<_known, _value, now, call, ret, before, again, aborted, applied>>

\* no function is being applied on its own
NotApplied == [op |-> "none", input |-> <<>>, done |-> FALSE, output |-> <<>>]

NoSettings == MTP_peerNotifySettings({}, MTPBool, MTPBool, MTPint,
                  MTPNotificationSound, MTPNotificationSound, MTPNotificationSound)

Call(kind, settings, m, s, at) ==
    [kind |-> kind, settings |-> settings, muteForSeconds |-> m,
     silentPosts |-> s, at |-> at]

\* the tracker as a call finds it: whether it is known, whether it holds a
\* Value, and whether that Value is muted until a time later than now
Before ==
    [known |-> _known,
     value |-> _value # nullptr,
     muted |-> has_value(muteUntil(_value)) /\ deref(muteUntil(_value)) > now]

\* NotifySettings::NotifySettings() = default
Init ==
    /\ _known = FALSE
    /\ _value = nullptr
    /\ now = MinNow
    /\ call = Call("none", NoSettings, nullopt, nullopt, MinNow)
    /\ ret = FALSE
    /\ before = [known |-> FALSE, value |-> FALSE, muted |-> FALSE]
    /\ again = FALSE
    /\ aborted = FALSE
    /\ applied = NotApplied

\* Expects(settings.type() == mtpc_peerNotifySettings)
Expects_peerNotifySettings(settings) == settings.type = "peerNotifySettings"

\* applyRemote without its precondition: any record is read as settings
ApplyRemote_NoExpects(settings) ==
    LET r == ChangeRemote(_known, _value, settings)
    IN /\ ~aborted
       /\ _known' = r.known
       /\ _value' = r.value
       /\ ret' = r.ret
       /\ call' = Call("remote", settings, nullopt, nullopt, now)
       /\ before' = Before
       /\ again' = (call = call')
       /\ UNCHANGED <<now, aborted, applied>>

\* applyRemote: change(const MTPPeerNotifySettings &); a record of another
\* type fails Expects(), which terminates the program before anything is
\* read, written or returned (the call is then recorded as "rejected")
ApplyRemote(settings) ==
    LET r == ChangeRemote(_known, _value, settings)
    IN /\ ~aborted
       /\ IF Expects_peerNotifySettings(settings)
          THEN /\ _known' = r.known
               /\ _value' = r.value
               /\ ret' = r.ret
               /\ call' = Call("remote", settings, nullopt, nullopt, now)
               /\ again' = (call = call')
               /\ UNCHANGED aborted
          ELSE /\ aborted' = TRUE
               /\ call' = Call("rejected", settings, nullopt, nullopt, now)
               /\ again' = FALSE
               /\ UNCHANGED <<_known, _value, ret>>
       /\ before' = Before
       /\ UNCHANGED <<now, applied>>

\* applyLocal: change(muteForSeconds, silentPosts)
ApplyLocal(m, s) ==
    LET r == ChangeLocal(_known, _value, m, s, now)
    IN /\ ~aborted
       /\ _known' = r.known
       /\ _value' = r.value
       /\ ret' = r.ret
       /\ call' = Call("local", NoSettings, m, s, now)
       /\ before' = Before
       /\ again' = (call = call')
       /\ UNCHANGED <<now, aborted, applied>>

\* the clock moves on between calls
Tick ==
    /\ ~aborted
    /\ now < MaxNow
    /\ now' = now + 1
    /\ call' = Call("none", NoSettings, nullopt, nullopt, now')
    /\ ret' = FALSE
    /\ before' = Before
    /\ again' = FALSE
    /\ UNCHANGED <<_known, _value, aborted, applied>>

Next ==
    \/ \E settings \in RemoteRecords \cup {MTPPeerNotifySettings} : ApplyRemote(settings)
    \/ \E m \in MuteForSeconds, s \in OptBool : ApplyLocal(m, s)
    \/ Tick

Spec == Init /\ [][Next]_vars

(* ------------- the pure functions of the file, applied alone ----------- *)

Titles == {"", "t", "tu"}
Datas == {"", "d", "de"}
RingtoneIds == (0..MaxRingtoneId) \cup {42}

\* every std::optional<NotifySound>, whatever combination of members it holds
OptSounds ==
    {nullopt} \cup
    {<<NotifySound(n, ti, d, i)>> : n \in BOOLEAN, ti \in Titles, d \in Datas,
                                    i \in RingtoneIds}

\* every MTPNotificationSound
AllWireSounds ==
    {MTP_notificationSoundDefault, MTP_notificationSoundNone}
    \cup {MTP_notificationSoundLocal(ti, d) : ti \in Titles, d \in Datas}
    \cup {MTP_notificationSoundRingtone(i) : i \in RingtoneIds}

\* the members of a NotifySettingsValue, and the candidates of a merge
FieldValues ==
    [_mute : {nullopt, <<0>>, <<RemoteMuteUntil>>},
     _sound : {nullopt, <<NotifySound(FALSE, "", "", 0)>>,
               <<NotifySound(FALSE, "t", "d", 0)>>},
     _silent : OptBool,
     _showPreviews : OptBool]

Application(op, input) == [op |-> op, input |-> input, done |-> FALSE, output |-> <<>>]

Applications ==
    {Application("SerializeSound", s) : s \in OptSounds}
    \cup {Application("ParseSound", w) : w \in AllWireSounds}
    \cup {Application("change", [v |-> v, to |-> c]) : v \in FieldValues, c \in FieldValues}

\* a fresh tracker that stays idle, and one function about to be applied
InitApplied ==
    /\ _known = FALSE
    /\ _value = nullptr
    /\ now = MinNow
    /\ call = Call("none", NoSettings, nullopt, nullopt, MinNow)
    /\ ret = FALSE
    /\ before = [known |-> FALSE, value |-> FALSE, muted |-> FALSE]
    /\ again = FALSE
    /\ aborted = FALSE
    /\ applied \in Applications

Idle == UNCHANGED <<_known, _value, now, call, ret, before, again, aborted>>

\* SerializeSound(sound)
ApplySerializeSound ==
    /\ applied.op = "SerializeSound"
    /\ ~applied.done
    /\ applied' = [applied EXCEPT !.done = TRUE,
                                  !.output = SerializeSound(applied.input)]
    /\ Idle

\* ParseSound(sound)
ApplyParseSound ==
    /\ applied.op = "ParseSound"
    /\ ~applied.done
    /\ applied' = [applied EXCEPT !.done = TRUE,
                                  !.output = ParseSound(applied.input)]
    /\ Idle

\* NotifySettingsValue::change(mute, sound, showPreviews, silentPosts) on a
\* Value whose members are applied.input.v
ApplyChangeFields ==
    /\ applied.op = "change"
    /\ ~applied.done
    /\ applied' = [applied EXCEPT
                      !.done = TRUE,
                      !.output = ValueChangeFields(applied.input.v,
                                     applied.input.to._mute,
                                     applied.input.to._sound,
                                     applied.input.to._showPreviews,
                                     applied.input.to._silent)]
    /\ Idle

NextApplied == ApplySerializeSound \/ ApplyParseSound \/ ApplyChangeFields

SpecApplied == InitApplied /\ [][NextApplied]_vars

(* ------------------------------ properties ---------------------------- *)

\* what a caller can observe of the tracker
Observable(k, val) ==
    <<settingsUnknown(k), muteUntil(val), silentPosts(val), serialize(val)>>

\* the step is a call of applyRemote or applyLocal
IsCall == call'.kind \in {"remote", "local"}
\* the step is applyRemote with a record whose flags are non-zero
IsRemoteNonEmpty == call'.kind = "remote" /\ call'.settings.flags # {}
\* the call has at least one argument provided
HasArgument(c) == has_value(c.muteForSeconds) \/ has_value(c.silentPosts)

\* the only difference between the Value before and after the step is a stored
\* sound replaced by another one that SerializeSound encodes the same
OnlySoundDiffers ==
    /\ _known' = _known
    /\ _value # nullptr
    /\ _value' # nullptr
    /\ deref(_value')._mute = deref(_value)._mute
    /\ deref(_value')._silent = deref(_value)._silent
    /\ deref(_value')._showPreviews = deref(_value)._showPreviews
    /\ deref(_value')._sound # deref(_value)._sound
    /\ SerializeSound(deref(_value')._sound) = SerializeSound(deref(_value)._sound)

\* C1 as stated: every call of applyRemote or applyLocal returns true exactly
\* when one of isUnknown(), muteUntil(), silentPosts(), serialize() differs
\* before and after the call.
C1_ReturnIffObservableChanged ==
    [][IsCall => (ret' = (Observable(_known', _value') # Observable(_known, _value)))]_vars

\* C1 amended: every call returns true exactly when the stored state (_known,
\* _value and its four members) differs before and after; a call that returns
\* false leaves the four observables unchanged; a call that returns true
\* changes one of them unless all it did was replace the stored sound by one
\* that is encoded the same.
C1_ReturnIffStoredChanged ==
    [][IsCall =>
        /\ ret' = (<<_known', _value'>> # <<_known, _value>>)
        /\ (~ret' => Observable(_known', _value') = Observable(_known, _value))
        /\ ((ret' /\ Observable(_known', _value') = Observable(_known, _value))
              => OnlySoundDiffers)]_vars

\* C1's case: applyRemote returned true on a tracker that held a Value and
\* now stores a local sound without a title, which serialize() emits as default
C1_Witness ==
    /\ call.kind = "remote"
    /\ ret
    /\ before.value
    /\ _value # nullptr
    /\ deref(_value)._sound = <<NotifySound(FALSE, "", "d", 0)>>
    /\ serialize(_value).sound = MTP_notificationSoundDefault

\* C2 as stated: applyRemote with a non-empty record on a tracker holding a
\* Value leaves every field the record lacks as the Value had it.
C2_AbsentFieldsKept ==
    [][(IsRemoteNonEmpty /\ _value # nullptr) =>
        /\ (~has_value(vmute_until(call'.settings))
              => deref(_value')._mute = deref(_value)._mute)
        /\ (~has_value(vother_sound(call'.settings))
              => deref(_value')._sound = deref(_value)._sound)
        /\ (~has_value(vshow_previews(call'.settings))
              => deref(_value')._showPreviews = deref(_value)._showPreviews)
        /\ (~has_value(vsilent(call'.settings))
              => deref(_value')._silent = deref(_value)._silent)]_vars

\* C2 amended: applyRemote with a non-empty record on a tracker holding a
\* Value leaves every field the record lacks not-set, whatever the Value had,
\* and every field the record has set to the record's value.
C2_AbsentFieldsCleared ==
    [][(IsRemoteNonEmpty /\ _value # nullptr) =>
        LET data == call'.settings
            v == deref(_value')
        IN /\ _value' # nullptr
           /\ v._mute = IF "f_mute_until" \in data.flags
                        THEN <<data.mute_until>> ELSE nullopt
           /\ v._sound = IF "f_other_sound" \in data.flags
                         THEN <<ParseSound(data.other_sound)>> ELSE nullopt
           /\ v._showPreviews = IF "f_show_previews" \in data.flags
                                THEN <<data.show_previews = "boolTrue">> ELSE nullopt
           /\ v._silent = IF "f_silent" \in data.flags
                          THEN <<data.silent = "boolTrue">> ELSE nullopt]_vars

\* C2's case: applyRemote with a non-empty record that has no mute-until
\* acted on a Value muted until a later time; the mute is gone
C2_Witness ==
    /\ call.kind = "remote"
    /\ call.settings.flags # {}
    /\ "f_mute_until" \notin call.settings.flags
    /\ before.value
    /\ before.muted
    /\ muteUntil(_value) = nullopt

\* C3 as stated: an unknown tracker stays unknown over every step that is not
\* an applyRemote call, applyLocal calls included.
C3_UnknownWithoutRemote ==
    [][(settingsUnknown(_known) /\ call'.kind # "remote")
         => settingsUnknown(_known')]_vars

\* C3 amended: an unknown tracker stays unknown over every step that is
\* neither an applyRemote call nor an applyLocal call with an argument
\* provided, and each of those two makes isUnknown() false.
C3_UnknownWithoutRemoteOrLocalEdit ==
    [][settingsUnknown(_known) =>
        (settingsUnknown(_known')
           <=> ~(call'.kind = "remote"
                   \/ (call'.kind = "local" /\ HasArgument(call'))))]_vars

\* C3's case: applyLocal with both arguments omitted acted on an unknown
\* tracker, which is still unknown
C3_Witness ==
    /\ call.kind = "local"
    /\ ~HasArgument(call)
    /\ ~before.known
    /\ settingsUnknown(_known)

\* C4: applyRemote with the non-empty record of the applyRemote call just
\* before it returns false and changes none of the four observables.
C4_RemoteIdempotent ==
    [][(IsRemoteNonEmpty /\ call.kind = "remote" /\ call.settings = call'.settings)
         => /\ ret' = FALSE
            /\ Observable(_known', _value') = Observable(_known, _value)]_vars

\* C4's case: a non-empty record was applied twice in a row
C4_Witness ==
    /\ call.kind = "remote"
    /\ call.settings.flags # {}
    /\ again
    /\ ret = FALSE
    /\ _value # nullptr

\* C5: after applyRemote with a record whose flags are zero, muteUntil() and
\* silentPosts() are not-set and isUnknown() is false; the call returned true
\* exactly when the tracker was unknown or held a Value.
C5_EmptyRecordCollapse ==
    (call.kind = "remote" /\ call.settings.flags = {}) =>
        /\ muteUntil(_value) = nullopt
        /\ silentPosts(_value) = nullopt
        /\ ~settingsUnknown(_known)
        /\ ret = (~before.known \/ before.value)

\* C5's case: an empty record dropped a Value that was muted
C5_Witness ==
    /\ call.kind = "remote"
    /\ call.settings.flags = {}
    /\ before.value
    /\ before.muted
    /\ ret

\* C6: once isUnknown() is false it is false in every later state.
C6_KnownIsPermanent ==
    [][~settingsUnknown(_known) => ~settingsUnknown(_known')]_vars

\* C6's case: an empty record was applied to a tracker that was known and
\* held a Value, and the tracker is still known
C6_Witness ==
    /\ call.kind = "remote"
    /\ call.settings.flags = {}
    /\ before.known
    /\ before.value
    /\ ~settingsUnknown(_known)

\* C7: applyLocal on a Value muted until a time later than now: with
\* muteForSeconds = 0 it returns true and muteUntil() is 0; with
\* muteForSeconds = m > 0 muteUntil() is now + m.
C7_LocalMuteIsAbsolute ==
    (call.kind = "local" /\ before.muted /\ has_value(call.muteForSeconds)) =>
        LET m == deref(call.muteForSeconds)
        IN /\ (m = 0 => ret /\ muteUntil(_value) = <<0>>)
           /\ (m > 0 => muteUntil(_value) = <<call.at + m>>)

\* C7's case: a Value muted until a later time was unmuted by applyLocal(0)
C7_Witness ==
    /\ call.kind = "local"
    /\ before.muted
    /\ call.muteForSeconds = <<0>>
    /\ ret
    /\ muteUntil(_value) = <<0>>

\* C8 as stated: applyLocal with muteForSeconds >= 0 on a tracker without a
\* Value returns true; muteUntil() is 0 for muteForSeconds = 0 and
\* now + muteForSeconds for a positive one; silentPosts() is the argument.
C8_LocalOnNoValue ==
    (/\ call.kind = "local"
     /\ ~before.value
     /\ has_value(call.muteForSeconds)
     /\ deref(call.muteForSeconds) >= 0) =>
        LET m == deref(call.muteForSeconds)
        IN /\ ret
           /\ muteUntil(_value) = <<IF m > 0 THEN call.at + m ELSE 0>>
           /\ silentPosts(_value) = call.silentPosts

\* C9 as stated: applyLocal repeating the applyLocal call just before it, with
\* an argument provided, muteForSeconds >= 0 and the same time, returns false
\* and leaves muteUntil() and silentPosts() as they were.
C9_LocalIdempotent ==
    [][(/\ call'.kind = "local"
        /\ call' = call
        /\ HasArgument(call')
        /\ (has_value(call'.muteForSeconds) => deref(call'.muteForSeconds) >= 0))
         => /\ ret' = FALSE
            /\ muteUntil(_value') = muteUntil(_value)
            /\ silentPosts(_value') = silentPosts(_value)]_vars

\* the wire variant of a stored sound: none, else ringtone, else local, else
\* default
WireVariant(s) ==
    IF s.none THEN [type |-> "notificationSoundNone", title |-> "", data |-> "", id |-> 0]
    ELSE IF s.id # 0
        THEN [type |-> "notificationSoundRingtone", title |-> "", data |-> "", id |-> s.id]
    ELSE IF s.title # ""
        THEN [type |-> "notificationSoundLocal", title |-> s.title, data |-> s.data,
              id |-> 0]
    ELSE [type |-> "notificationSoundDefault", title |-> "", data |-> "", id |-> 0]

\* C10: serialize() flags a field exactly when the tracker holds a Value in
\* which the field is present; a flagged field carries the stored value (the
\* sound as its wire variant), an unflagged one its neutral default
\* (show-previews true, silent false, mute-until 0, sound default); with no
\* Value all flags are clear.
C10_SerializeFlagsAndValues ==
    LET r == serialize(_value)
        v == deref(_value)
    IN IF _value = nullptr
       THEN r.flags = {}
       ELSE /\ r.flags \subseteq {"f_mute_until", "f_sound", "f_silent", "f_show_previews"}
            /\ ("f_mute_until" \in r.flags) = (v._mute # nullopt)
            /\ ("f_sound" \in r.flags) = (v._sound # nullopt)
            /\ ("f_silent" \in r.flags) = (v._silent # nullopt)
            /\ ("f_show_previews" \in r.flags) = (v._showPreviews # nullopt)
            /\ r.mute_until = IF v._mute # nullopt THEN v._mute[1] ELSE 0
            /\ r.silent = IF v._silent # nullopt /\ v._silent[1]
                          THEN "boolTrue" ELSE "boolFalse"
            /\ r.show_previews = IF v._showPreviews # nullopt /\ ~v._showPreviews[1]
                                 THEN "boolFalse" ELSE "boolTrue"
            /\ r.sound = IF v._sound # nullopt
                         THEN WireVariant(v._sound[1])
                         ELSE [type |-> "notificationSoundDefault", title |-> "",
                               data |-> "", id |-> 0]

\* C10's case: a remote record with ringtone 42 and no mute-until made a
\* Value; serialize() flags the sound and not the mute, and the sound is
\* ringtone 42
C10_Witness ==
    /\ call.kind = "remote"
    /\ call.settings.other_sound = MTP_notificationSoundRingtone(42)
    /\ "f_mute_until" \notin call.settings.flags
    /\ ~before.value
    /\ _value # nullptr
    /\ "f_sound" \in serialize(_value).flags
    /\ "f_mute_until" \notin serialize(_value).flags
    /\ serialize(_value).sound.type = "notificationSoundRingtone"
    /\ serialize(_value).sound.id = 42

\* the four states of a NotifySound
IsDefaultSound(s) == ~s.none /\ s.id = 0 /\ s.title = "" /\ s.data = ""
IsNoneSound(s) == s.none /\ s.id = 0 /\ s.title = "" /\ s.data = ""
IsLocalSound(s) == ~s.none /\ s.id = 0 /\ s.title # "" /\ s.data # ""
IsRingtoneSound(s) == ~s.none /\ s.id # 0 /\ s.title = "" /\ s.data = ""
InFourStates(s) ==
    IsDefaultSound(s) \/ IsNoneSound(s) \/ IsLocalSound(s) \/ IsRingtoneSound(s)

\* the wire sounds SerializeSound can produce
Producible == {SerializeSound(s) : s \in OptSounds}

\* C11: for every NotifySound s in one of the four states
\* ParseSound(SerializeSound(s)) = s, and for every wire sound w that
\* SerializeSound can produce SerializeSound(ParseSound(w)) = w.
C11_SoundRoundTrip ==
    /\ (/\ applied.op = "SerializeSound"
        /\ applied.done
        /\ has_value(applied.input)
        /\ InFourStates(deref(applied.input)))
         => ParseSound(applied.output) = deref(applied.input)
    /\ (/\ applied.op = "ParseSound"
        /\ applied.done
        /\ applied.input \in Producible)
         => SerializeSound(make_optional(applied.output)) = applied.input

\* C11's case: SerializeSound encoded a local sound with title and data as
\* the local wire variant
C11_Witness ==
    /\ applied.op = "SerializeSound"
    /\ applied.done
    /\ applied.input = <<NotifySound(FALSE, "t", "d", 0)>>
    /\ applied.output = MTP_notificationSoundLocal("t", "d")

\* a member of the Value is present
AnyFieldPresent(v) ==
    \/ has_value(v._mute)
    \/ has_value(v._sound)
    \/ has_value(v._showPreviews)
    \/ has_value(v._silent)

\* C12 as stated: in every reachable state a tracker that holds a Value has
\* at least one of the Value's four fields present.
C12_ValueHasAField ==
    _value # nullptr => AnyFieldPresent(deref(_value))

\* C13: in every reachable state a tracker that holds a Value is known.
C13_ValueImpliesKnown ==
    _value # nullptr => ~settingsUnknown(_known)

\* C13's case: applyLocal with an argument acted on an unknown tracker, which
\* now holds a Value and is known
C13_Witness ==
    /\ call.kind = "local"
    /\ HasArgument(call)
    /\ ~before.known
    /\ ~before.value
    /\ _value # nullptr
    /\ ~settingsUnknown(_known)

\* C14: applyLocal leaves the sound and the show-previews of an existing Value
\* as they were; with muteForSeconds omitted muteUntil() is the same before
\* and after the call, with silentPosts omitted silentPosts() is.
C14_LocalFrame ==
    [][call'.kind = "local" =>
        /\ (_value # nullptr =>
              /\ _value' # nullptr
              /\ deref(_value')._sound = deref(_value)._sound
              /\ deref(_value')._showPreviews = deref(_value)._showPreviews)
        /\ (~has_value(call'.muteForSeconds)
              => muteUntil(_value') = muteUntil(_value))
        /\ (~has_value(call'.silentPosts)
              => silentPosts(_value') = silentPosts(_value))]_vars

\* C14's case: applyLocal(omitted, true) changed a muted Value that stores a
\* sound and a show-previews flag; the mute, the sound and the flag are there
C14_Witness ==
    /\ call.kind = "local"
    /\ ~has_value(call.muteForSeconds)
    /\ call.silentPosts = <<TRUE>>
    /\ before.value
    /\ before.muted
    /\ ret
    /\ _value # nullptr
    /\ muteUntil(_value) = <<RemoteMuteUntil>>
    /\ has_value(deref(_value)._sound)
    /\ has_value(deref(_value)._showPreviews)

\* C15: applyLocal with both arguments omitted returns false and leaves the
\* known flag, the presence of a Value and its four fields as they were.
C15_LocalNoArgumentsNoOp ==
    [][(call'.kind = "local" /\ ~HasArgument(call'))
         => /\ ret' = FALSE
            /\ _known' = _known
            /\ _value' = _value]_vars

\* C15's case: applyLocal with both arguments omitted acted on a tracker
\* holding a muted Value, returned false, and the Value is still muted
C15_Witness ==
    /\ call.kind = "local"
    /\ ~HasArgument(call)
    /\ before.value
    /\ before.muted
    /\ ret = FALSE
    /\ muteUntil(_value) = <<RemoteMuteUntil>>

\* C16: the four-field merge returns false and modifies no field when the
\* four candidates equal the current fields; otherwise it returns true and
\* all four fields equal the candidates.
C16_MergeAllOrNothing ==
    (applied.op = "change" /\ applied.done) =>
        LET v == applied.input.v
            to == applied.input.to
            same == /\ v._mute = to._mute
                    /\ v._sound = to._sound
                    /\ v._showPreviews = to._showPreviews
                    /\ v._silent = to._silent
        IN IF same
           THEN applied.output.ret = FALSE /\ applied.output.value = v
           ELSE /\ applied.output.ret = TRUE
                /\ applied.output.value._mute = to._mute
                /\ applied.output.value._sound = to._sound
                /\ applied.output.value._showPreviews = to._showPreviews
                /\ applied.output.value._silent = to._silent

\* C16's case: the merge was given candidates that differ from the current
\* fields in the silent flag alone, returned true and wrote the flag
C16_Witness ==
    /\ applied.op = "change"
    /\ applied.done
    /\ applied.input.v._silent = <<FALSE>>
    /\ applied.input.to = [applied.input.v EXCEPT !._silent = <<TRUE>>]
    /\ has_value(applied.input.v._mute)
    /\ applied.output.ret
    /\ applied.output.value = applied.input.to

\* the stored sounds of a tracker
StoredSounds ==
    IF _value # nullptr /\ has_value(deref(_value)._sound)
    THEN {deref(deref(_value)._sound)}
    ELSE {}

\* a local sound of which exactly one of title and data is empty
IsPartialLocalSound(s) ==
    ~s.none /\ s.id = 0 /\ ((s.title = "") # (s.data = ""))

\* C17 as stated: every NotifySound stored in a Value is in exactly one of
\* the four states default, none, local (title and data both non-empty) and
\* ringtone (non-zero id).
C17_StoredSoundInFourStates ==
    \A s \in StoredSounds : InFourStates(s)

\* C17 amended: every NotifySound stored in a Value is in exactly one of the
\* four states, or is a local sound copied as received of which exactly one of
\* title and data is empty (none flag false, id zero), which is in none of
\* the four.
C17_StoredSoundInFourStatesOrPartialLocal ==
    \A s \in StoredSounds : InFourStates(s) # IsPartialLocalSound(s)

\* C17's case: applyRemote stored the sound of a record whose sound is the
\* ringtone with id 0, and the stored sound is in the default state
C17_Witness ==
    /\ call.kind = "remote"
    /\ "f_other_sound" \in call.settings.flags
    /\ call.settings.other_sound = MTP_notificationSoundRingtone(0)
    /\ StoredSounds # {}
    /\ \A s \in StoredSounds : IsDefaultSound(s)

\* C18: SerializeSound gives the default tag for an absent sound; otherwise
\* the none tag if the none flag is set; otherwise the ringtone tag with the
\* id if the id is non-zero; otherwise the local tag with title and data if
\* the title is non-empty; otherwise the default tag.
C18_SerializePriority ==
    (applied.op = "SerializeSound" /\ applied.done) =>
        applied.output = IF has_value(applied.input)
                         THEN WireVariant(deref(applied.input))
                         ELSE [type |-> "notificationSoundDefault", title |-> "",
                               data |-> "", id |-> 0]

\* C18's case: SerializeSound encoded a sound with the none flag, id 42, a
\* title and data as the none tag
C18_Witness ==
    /\ applied.op = "SerializeSound"
    /\ applied.done
    /\ applied.input = <<NotifySound(TRUE, "t", "d", 42)>>
    /\ applied.output.type = "notificationSoundNone"

\* C19: applyRemote with a record whose outer variant is not the settings
\* record aborts: it returns nothing, leaves the known flag and the Value as
\* they were, and nothing runs after it.
C19_UnrecognizedRecordAborts ==
    [][/\ ~aborted
       /\ (~Expects_peerNotifySettings(call'.settings)
             => /\ aborted'
                /\ call'.kind = "rejected"
                /\ ret' = ret
                /\ _known' = _known
                /\ _value' = _value)]_vars

\* C19's case: applyRemote was called with a record of another variant on a
\* tracker holding a muted Value; the call aborted and the Value is as it was
C19_Witness ==
    /\ aborted
    /\ call.kind = "rejected"
    /\ ~Expects_peerNotifySettings(call.settings)
    /\ before.value
    /\ before.muted
    /\ _known
    /\ muteUntil(_value) = <<RemoteMuteUntil>>

====
